---- MODULE Spec2Model ----
(***************************************************************************)
(* A model of WiredTiger's modify support (src/support/modify.c) and of    *)
(* the cursor return functions (src/btree/bt_ret.c).                       *)
(*                                                                         *)
(* A WT_ITEM is modelled at the level of its memory: mem is the chunk the  *)
(* item owns (memsize == Len(mem)), off is WT_PTRDIFF(data, mem) when the  *)
(* data lies in the item, ext is the memory data references when it does   *)
(* not (an on-page cell, an update's payload).  size_t arithmetic is taken *)
(* modulo WordMod; pointer arithmetic is not, and an access that leaves    *)
(* the owned chunk is recorded as out of bounds (undefined behaviour).     *)
(***************************************************************************)
EXTENDS Integers, Sequences, FiniteSets, TLC

\* ------------------------------------------------------------------ bounds

\* Width of size_t in bits (the model's machine word).
WordBits == 4

\* Longest initial buffer and longest data of one edit in the splice runs.
MaxLen == 3
MaxData == 2

WordMod == 2 ^ WordBits
Word == 0 .. (WordMod - 1)

\* A cell of allocated memory nothing has written yet.
Uninit == 0 - 1

\* Bytes of an initial buffer tell their position; data bytes are others.
DataBytes == {8, 9}

RECURSIVE SeqsUpTo(_, _)
SeqsUpTo(S, n) ==
    IF n = 0 THEN {<< >>}
    ELSE LET shorter == SeqsUpTo(S, n - 1)
         IN  shorter \cup {Append(s, x) : s \in {t \in shorter : Len(t) = n - 1}, x \in S}

Iota(n) == [i \in 1 .. n |-> i]
Fill(n, x) == [i \in 1 .. n |-> x]
Max(a, b) == IF a >= b THEN a ELSE b

\* F of the value of x, x evaluated once.
Bind(x, F(_)) == CHOOSE z \in {F(y) : y \in {x}} : TRUE

\* ------------------------------------------------------- size_t arithmetic

AddW(a, b) == (a + b) % WordMod
SubW(a, b) == (a - b + WordMod) % WordMod

\* ------------------------------------------------------------ raw memory

\* memmove/memcpy destination: the bytes land where the chunk has cells.
Poke(mem, addr, bytes) ==
    [i \in 1 .. Len(mem) |->
        IF i - 1 >= addr /\ i - 1 < addr + Len(bytes)
        THEN bytes[i - addr] ELSE mem[i]]

\* memmove source: n cells from addr; a cell outside the chunk reads junk.
Peek(mem, addr, n) ==
    [k \in 1 .. n |->
        IF addr + k >= 1 /\ addr + k <= Len(mem) THEN mem[addr + k] ELSE Uninit]

\* The n bytes at addr lie in the chunk.
InChunk(mem, addr, n) == n = 0 \/ (addr >= 0 /\ addr + n <= Len(mem))

\* -------------------------------------------------------------- WT_ITEM

MkItem(mem, off, size, inItem, ext) ==
    [mem |-> mem, off |-> off, size |-> size, inItem |-> inItem, ext |-> ext]

EmptyItem == MkItem(<< >>, 0, 0, FALSE, << >>)

\* WT_DATA_IN_ITEM
WT_DATA_IN_ITEM(v) == v.inItem

\* The bytes value->data[0 .. value->size).
ItemData(v) ==
    IF v.inItem THEN Peek(v.mem, v.off, v.size) ELSE SubSeq(v.ext, 1, v.size)

\* An item referencing foreign memory (cursor->value.data = p, size = n).
RefItem(v, bytes) == MkItem(v.mem, 0, Len(bytes), FALSE, bytes)

\* __wt_buf_grow: at least size bytes of owned memory, the data kept and
\* made local to the item.  allocOK is whether a needed allocation succeeds.
\* The result carries ret (0 or ENOMEM) and oob (a copy left the chunk).
wt_buf_grow(v, size, allocOK) ==
    IF ~(size > Len(v.mem) \/ ~WT_DATA_IN_ITEM(v))
    THEN [v |-> v, ret |-> "ok", oob |-> FALSE]
    ELSE IF size > Len(v.mem) /\ ~allocOK
    THEN [v |-> v, ret |-> "ENOMEM", oob |-> FALSE]
    ELSE LET offset == IF WT_DATA_IN_ITEM(v) THEN v.off ELSE 0
             copy   == ~WT_DATA_IN_ITEM(v) /\ v.size > 0
             grown  == IF size > Len(v.mem)
                       THEN v.mem \o Fill(size - Len(v.mem), Uninit)
                       ELSE v.mem
             mem1   == IF copy THEN Poke(grown, 0, ItemData(v)) ELSE grown
         IN  [v   |-> MkItem(mem1, offset, v.size, TRUE, << >>),
              ret |-> "ok",
              oob |-> copy /\ ~InChunk(grown, 0, v.size)]

\* __wt_buf_set: a local copy of the bytes.
wt_buf_set(v, bytes) ==
    LET g == wt_buf_grow(MkItem(v.mem, v.off, 0, v.inItem, << >>), Len(bytes), TRUE).v
    IN  MkItem(Poke(g.mem, 0, bytes), 0, Len(bytes), TRUE, << >>)

\* --------------------------------------------------- __modify_apply_one

\* The shrink-or-grow branch, after the replacement size was corrected.
\* With diagnostic set a failed WT_ASSERT aborts before the move.
ModifyShrinkGrow(g, data_size, offset, size, data, diagnostic) ==
    LET n       == SubW(g.size, AddW(offset, size))
        from    == g.off + AddW(offset, size)
        to      == g.off + AddW(offset, data_size)
        assert1 == WT_DATA_IN_ITEM(g) /\ from + n <= Len(g.mem)
        assert2 == WT_DATA_IN_ITEM(g) /\ to + n <= Len(g.mem)
        moved   == Poke(g.mem, to, Peek(g.mem, from, n))
        mem2    == Poke(moved, g.off + offset, data)
    IN  IF diagnostic /\ ~(assert1 /\ assert2)
        THEN [v |-> g, ret |-> "abort", oob |-> FALSE, asserted |-> TRUE,
              path |-> "splice"]
        ELSE [v   |-> MkItem(mem2, g.off,
                             (g.size + data_size + WordMod - size) % WordMod,
                             TRUE, << >>),
              ret |-> "ok",
              oob |-> ~InChunk(g.mem, from, n) \/ ~InChunk(g.mem, to, n)
                      \/ ~InChunk(g.mem, g.off + offset, data_size),
              asserted |-> ~(assert1 /\ assert2),
              path |-> "splice"]

\* The replacement size as corrected at modify.c:108, and without the
\* correction.
ClampSizeMutantNone(g, offset, size) == size

ClampSize(g, offset, size) ==
    IF g.size < AddW(offset, size) THEN g.size - offset ELSE size

\* The fast-path test at modify.c:85, and without its test of the sizes.
FastPathMutantNoSize(g, data_size, offset, size) ==
    g.size > AddW(offset, data_size)

FastPath(g, data_size, offset, size) ==
    g.size > AddW(offset, data_size) /\ data_size = size

\* The capacity asked of __wt_buf_grow at modify.c:77-79.
GrowLen(v, data_size, offset) ==
    AddW(AddW((IF WT_DATA_IN_ITEM(v) THEN v.off ELSE 0), Max(v.size, offset)),
         data_size)

\* The gap bytes written at modify.c:95-97.
GapFill(g, offset) ==
    IF g.size < offset
    THEN Poke(g.mem, g.off + g.size, Fill(offset - g.size, 0))
    ELSE g.mem

\* __modify_apply_one(session, value, data_size, offset, size, data)
modify_apply_one(value, data_size, offset, size, data, allocOK, diagnostic) ==
    LET gr == wt_buf_grow(value, GrowLen(value, data_size, offset), allocOK)
        g  == gr.v
    IN  IF gr.ret # "ok"
        THEN [v |-> value, ret |-> gr.ret, oob |-> FALSE, asserted |-> FALSE,
              path |-> "grow"]
        ELSE IF FastPath(g, data_size, offset, size)
        THEN [v   |-> MkItem(Poke(g.mem, g.off + offset, data), g.off, g.size,
                             g.inItem, << >>),
              ret |-> "ok",
              oob |-> gr.oob \/ ~InChunk(g.mem, g.off + offset, data_size),
              asserted |-> FALSE,
              path |-> "fast"]
        ELSE IF g.size <= offset
        THEN [v   |-> MkItem(Poke(GapFill(g, offset), g.off + offset, data),
                             g.off, AddW(offset, data_size), g.inItem, << >>),
              ret |-> "ok",
              oob |-> gr.oob
                      \/ ~InChunk(g.mem, g.off + g.size, offset - g.size)
                      \/ ~InChunk(g.mem, g.off + offset, data_size),
              asserted |-> FALSE,
              path |-> "append"]
        ELSE LET sz == ClampSize(g, offset, size)
             IN  IF data_size = sz
                 THEN [v   |-> MkItem(Poke(g.mem, g.off + offset, data), g.off,
                                      AddW(offset, data_size), g.inItem, << >>),
                       ret |-> "ok",
                       oob |-> gr.oob
                               \/ ~InChunk(g.mem, g.off + offset, data_size),
                       asserted |-> FALSE,
                       path |-> "overwrite"]
                 ELSE LET r == ModifyShrinkGrow(g, data_size, offset, sz, data,
                                                diagnostic)
                      IN  [r EXCEPT !.oob = r.oob \/ gr.oob]

\* ------------------------------------------------------- the modify codec

\* A WT_MODIFY: data (a WT_ITEM's bytes), offset, size.
MkModify(data, offset, size) == [data |-> data, offset |-> offset, size |-> size]

\* The three header fields __wt_modify_pack writes for one entry, in order
\* (and with offset and size exchanged).
PackTripleMutantSwapped(e) == <<Len(e.data), e.size, e.offset>>

PackTriple(e) == <<Len(e.data), e.offset, e.size>>

RECURSIVE PackHeader(_)
PackHeader(entries) ==
    IF entries = << >> THEN << >>
    ELSE PackTriple(Head(entries)) \o PackHeader(Tail(entries))

RECURSIVE PackData(_)
PackData(entries) ==
    IF entries = << >> THEN << >>
    ELSE Head(entries).data \o PackData(Tail(entries))

\* __wt_modify_pack: the packed modify.  A cell of the header part holds one
\* size_t, a cell of the data part one byte: the count, the triples in
\* order, then the data in order.
wt_modify_pack(entries) ==
    <<Len(entries)>> \o PackHeader(entries) \o PackData(entries)

\* The calls __wt_modify_apply makes of __modify_apply_one for a packed
\* modify: p walks the triples, data walks the bytes behind them.
RECURSIVE ModifyWalk(_, _, _, _)
ModifyWalk(modify, nentries, p, data) ==
    IF nentries <= 0 THEN << >>
    ELSE <<[data_size |-> modify[p + 1],
            offset    |-> modify[p + 2],
            size      |-> modify[p + 3],
            data      |-> Peek(modify, data, modify[p + 1])]>>
         \o ModifyWalk(modify, nentries - 1, p + 3, data + modify[p + 1])

ModifyCalls(modify) ==
    ModifyWalk(modify, modify[1], 1, 1 + modify[1] * 3)

\* The calls __wt_modify_apply_api makes for an array of WT_MODIFY.
ApiCalls(entries) ==
    [i \in 1 .. Len(entries) |->
        [data_size |-> Len(entries[i].data),
         offset    |-> entries[i].offset,
         size      |-> entries[i].size,
         data      |-> entries[i].data]]

\* The state a run of calls carries: the item, the return value, and whether
\* a call left the chunk or saw a false WT_ASSERT.
MkRun(v) == [v |-> v, ret |-> "ok", oob |-> FALSE, asserted |-> FALSE]

\* WT_RET(__modify_apply_one(...)) for each call in order.
RECURSIVE ApplyCalls(_, _, _, _)
ApplyCalls(run, calls, allocOK, diagnostic) ==
    IF calls = << >> \/ run.ret # "ok" THEN run
    ELSE LET c == Head(calls)
         IN  Bind(modify_apply_one(run.v, c.data_size, c.offset, c.size,
                                   c.data, allocOK, diagnostic),
                  LAMBDA r :
                    ApplyCalls([v |-> r.v, ret |-> r.ret,
                                oob |-> run.oob \/ r.oob,
                                asserted |-> run.asserted \/ r.asserted],
                               Tail(calls), allocOK, diagnostic))

\* __wt_modify_apply(session, value, modify)
wt_modify_apply(run, modify, allocOK, diagnostic) ==
    Bind(run, LAMBDA r : ApplyCalls(r, ModifyCalls(modify), allocOK, diagnostic))

\* __wt_modify_apply_api(session, value, entries, nentries)
wt_modify_apply_api(run, entries, allocOK, diagnostic) ==
    Bind(run, LAMBDA r : ApplyCalls(r, ApiCalls(entries), allocOK, diagnostic))

\* ------------------------------------------------------- update chains

\* Entries of the modify list that fit on the stack: list[] at bt_ret.c:142
\* has WT_MAX_MODIFY_UPDATE of them.  MaxStack stands for the number, small
\* enough that bounded chains reach the allocated list.
MaxStack == 2
WT_MAX_MODIFY_UPDATE == MaxStack

\* A WT_UPDATE: its type, whether __wt_txn_upd_visible holds of it for the
\* reader, and WT_UPDATE_DATA.  edits is what the writer of a modify packed
\* into data; the code never reads it.  The chain is a sequence, next of
\* chain[k] being chain[k + 1] and NULL behind the last.
MkUpdate(type, visible, data, edits) ==
    [type |-> type, visible |-> visible, data |-> data, edits |-> edits]

WT_UPDATE_DATA_VALUE(upd) == upd.type = "STANDARD" \/ upd.type = "DELETED"

\* __wt_txn_upd_visible as the walk at bt_ret.c:168 asks it (and a walk that
\* does not ask).
UpdVisibleMutantAll(upd) == TRUE

UpdVisible(upd) == upd.visible

\* NULL among updates: the end of a chain (bt_ret.c:167) and a list slot
\* nothing has written.
Nil == 0

\* memcpy(listp, list, sizeof(list)) at bt_ret.c:186-187 (and the move to
\* allocated memory without it).
SpillCopyMutantNone(heap, list) == heap

SpillCopy(heap, list) ==
    [j \in 1 .. Len(heap) |-> IF j <= Len(list) THEN list[j] ELSE heap[j]]

\* bt_ret.c:181-189: listp[i++] = upd, moving to allocated memory when the
\* stack array is full.  st is (i, list, heap, onHeap, allocated, ret).
ListPush(st, upd, allocOK) ==
    IF st.i >= WT_MAX_MODIFY_UPDATE
    THEN IF ~allocOK
         THEN [st EXCEPT !.ret = "ENOMEM",
                         !.onHeap = TRUE,
                         !.heap = IF st.i = WT_MAX_MODIFY_UPDATE
                                  THEN << >> ELSE st.heap]
         ELSE LET old    == IF st.i = WT_MAX_MODIFY_UPDATE THEN << >> ELSE st.heap
                  grown  == old \o Fill(st.i + 1 - Len(old), Nil)
                  copied == IF st.i = WT_MAX_MODIFY_UPDATE
                            THEN SpillCopy(grown, st.list) ELSE grown
              IN  [st EXCEPT !.heap = [copied EXCEPT ![st.i + 1] = upd],
                             !.onHeap = TRUE,
                             !.allocated = TRUE,
                             !.i = st.i + 1]
    ELSE [st EXCEPT !.list = [st.list EXCEPT ![st.i + 1] = upd],
                    !.i = st.i + 1]

\* The loop at bt_ret.c:167-191 from chain[upd] on; upd is 0 for NULL.
RECURSIVE ListWalk(_, _, _, _)
ListWalk(chain, upd, st, allocOK) ==
    IF upd = 0 \/ upd > Len(chain) THEN [st EXCEPT !.upd = 0]
    ELSE IF ~UpdVisible(chain[upd]) THEN ListWalk(chain, upd + 1, st, allocOK)
    ELSE IF WT_UPDATE_DATA_VALUE(chain[upd]) THEN [st EXCEPT !.upd = upd]
    ELSE IF chain[upd].type = "MODIFIED"
    THEN Bind(ListPush(st, upd, allocOK),
              LAMBDA pushed :
                IF pushed.ret # "ok" THEN [pushed EXCEPT !.upd = upd]
                ELSE ListWalk(chain, upd + 1, pushed, allocOK))
    ELSE ListWalk(chain, upd + 1, st, allocOK)

ListInit ==
    [i |-> 0, list |-> Fill(WT_MAX_MODIFY_UPDATE, Nil), heap |-> << >>,
     onHeap |-> FALSE, allocated |-> FALSE, ret |-> "ok", upd |-> 0]

\* listp[j]
ListAt(st, j) == IF st.onHeap THEN st.heap[j + 1] ELSE st.list[j + 1]

\* The order bt_ret.c:215-217 takes the list in: listp[--i] while i > 0.
ReplayOrder(st) == [j \in 1 .. st.i |-> ListAt(st, st.i - j)]

\* WT_ERR(__wt_modify_apply(...)) for each listed update in turn; following
\* a slot nothing wrote is a wild read.
RECURSIVE ReplayList(_, _, _, _, _)
ReplayList(run, chain, order, allocOK, diagnostic) ==
    IF order = << >> \/ run.ret # "ok" THEN run
    ELSE IF Head(order) = Nil
    THEN [run EXCEPT !.ret = "crash", !.oob = TRUE]
    ELSE Bind(wt_modify_apply(run, chain[Head(order)].data, allocOK,
                              diagnostic),
              LAMBDA next :
                ReplayList(next, chain, Tail(order), allocOK, diagnostic))

\* A leaf page slot as __value_return reads it: the page type, how the value
\* is stored, its bytes, and whether cbt->slot is a slot of the page at all
\* (callers set UINT32_MAX when the update list must suffice).
MkPage(type, kind, bytes, slotOK) ==
    [type |-> type, kind |-> kind, bytes |-> bytes, slotOK |-> slotOK]

\* __value_return(session, cbt): cursor->value from the original page.
value_return(v, page) ==
    IF page.type = "ROW_LEAF" /\ page.kind = "empty"
    THEN MkItem(v.mem, v.off, 0, v.inItem, v.ext)
    ELSE IF page.type = "COL_FIX"
    THEN wt_buf_set(v, page.bytes)
    ELSE RefItem(v, page.bytes)

\* What a call of a return function hands back: the item, the return value,
\* whether an access left the chunk or a WT_ASSERT was false, the modifies
\* replayed, and whether the list was allocated.
MkReturn(v) ==
    [v |-> v, ret |-> "ok", oob |-> FALSE, asserted |-> FALSE,
     applied |-> 0, spilled |-> FALSE]

\* bt_ret.c:197-213: the value to roll forward from; st.upd is the update
\* the walk stopped at, 0 for NULL.  (And with a tombstone taken for no
\* update at all.)
BaseValueMutantPage(v, chain, st, page) ==
    IF st.upd = 0 \/ chain[st.upd].type = "DELETED" THEN value_return(v, page)
    ELSE wt_buf_set(v, chain[st.upd].data)

BaseValue(v, chain, st, page) ==
    IF st.upd = 0 THEN value_return(v, page)
    ELSE IF chain[st.upd].type = "DELETED" THEN wt_buf_set(v, << >>)
    ELSE wt_buf_set(v, chain[st.upd].data)

\* bt_ret.c:163-221, the walk done: st is the list it left.
ValueRollForward(v, chain, upd, st, page, allocOK, diagnostic) ==
    LET typed == [MkReturn(v) EXCEPT
                    !.asserted = chain[upd].type # "MODIFIED",
                    !.spilled = st.allocated]
        stray == st.upd = 0 /\ ~page.slotOK
    IN  IF st.ret # "ok" THEN [typed EXCEPT !.ret = st.ret]
        ELSE IF stray /\ diagnostic
        THEN [typed EXCEPT !.ret = "abort", !.asserted = TRUE]
        ELSE Bind(ReplayList([v |-> BaseValue(v, chain, st, page),
                              ret |-> "ok", oob |-> stray,
                              asserted |-> typed.asserted \/ stray],
                             chain, ReplayOrder(st), allocOK, diagnostic),
                  LAMBDA run :
                    [typed EXCEPT !.v = run.v, !.ret = run.ret,
                                  !.oob = run.oob,
                                  !.asserted = run.asserted,
                                  !.applied = IF run.ret = "ok" THEN st.i
                                              ELSE 0])

\* __value_return_upd(session, cbt, upd): upd is an index of chain.
value_return_upd(v, chain, upd, page, allocOK, diagnostic) ==
    IF chain[upd].type = "STANDARD"
    THEN MkReturn(RefItem(v, chain[upd].data))
    ELSE IF chain[upd].type # "MODIFIED" /\ diagnostic
    THEN [MkReturn(v) EXCEPT !.ret = "abort", !.asserted = TRUE]
    ELSE Bind(ListWalk(chain, upd, ListInit, allocOK),
              LAMBDA st : ValueRollForward(v, chain, upd, st, page, allocOK,
                                           diagnostic))

\* ------------------------------------------------- cursor return: values

\* The value flags __wt_value_return leaves: F_CLR at bt_ret.c:264, and
\* F_SET at bt_ret.c:269 unless WT_RET returned first.
ValueReturnFlags(flags, run) ==
    IF run.ret = "ok"
    THEN (flags \ {"VALUE_EXT"}) \cup {"VALUE_INT"}
    ELSE flags \ {"VALUE_EXT"}

\* __wt_value_return(session, cbt, upd): upd is an index of chain, 0 for
\* NULL.  ran tells which of __value_return / __value_return_upd ran.  (First
\* with the test of the internal flag that __wt_key_return has.)
wt_value_return_MutantSkipInt(flags, v, chain, upd, page, allocOK, diagnostic) ==
    IF "VALUE_INT" \in flags
    THEN [flags |-> flags \ {"VALUE_EXT"}, run |-> MkReturn(v), ran |-> "none"]
    ELSE Bind(IF upd = 0
              THEN [MkReturn(value_return(v, page)) EXCEPT !.oob = ~page.slotOK]
              ELSE value_return_upd(v, chain, upd, page, allocOK, diagnostic),
              LAMBDA run :
                [flags |-> ValueReturnFlags(flags, run),
                 run |-> run,
                 ran |-> IF upd = 0 THEN "value_return" ELSE "value_return_upd"])

wt_value_return(flags, v, chain, upd, page, allocOK, diagnostic) ==
    Bind(IF upd = 0
         THEN [MkReturn(value_return(v, page)) EXCEPT !.oob = ~page.slotOK]
         ELSE value_return_upd(v, chain, upd, page, allocOK, diagnostic),
         LAMBDA run :
           [flags |-> ValueReturnFlags(flags, run),
            run |-> run,
            ran |-> IF upd = 0 THEN "value_return" ELSE "value_return_upd"])

\* --------------------------------------------------- cursor return: keys

\* The other of the cursor's two key buffers.
OtherBuf(id) == IF id = "A" THEN "B" ELSE "A"

\* bt_ret.c:54-59: exchange cbt->row_key and cbt->tmp, and reference the new
\* row_key.
KeySwap(c) ==
    [c EXCEPT !.row_key = c.tmp,
              !.tmp = c.row_key,
              !.key = [src |-> c.tmp, bytes |-> c.bufs[c.tmp]]]

\* __key_return(session, cbt).  leafKeyOK is whether __wt_row_leaf_key
\* succeeds.
key_return(c, leafKeyOK) ==
    IF c.pageType = "ROW_LEAF"
    THEN IF c.ins.present
         THEN [c |-> [c EXCEPT !.key = [src |-> "ins", bytes |-> c.ins.key]],
               ret |-> "ok", swapped |-> 0]
         ELSE IF c.compare = 0
         THEN [c |-> KeySwap(c), ret |-> "ok", swapped |-> 1]
         ELSE IF leafKeyOK
         THEN [c |-> [c EXCEPT !.key = [src |-> "page", bytes |-> c.pageKey]],
               ret |-> "ok", swapped |-> 0]
         ELSE [c |-> c, ret |-> "ENOMEM", swapped |-> 0]
    ELSE [c |-> [c EXCEPT !.recno = c.cbtRecno], ret |-> "ok", swapped |-> 0]

\* The test at bt_ret.c:245 (and a call that does not test).
KeyGuardMutantAlways(c) == TRUE

KeyGuard(c) == "KEY_INT" \notin c.flags

\* __wt_key_return(session, cbt)
wt_key_return(c, leafKeyOK) ==
    LET c1 == [c EXCEPT !.flags = c.flags \ {"KEY_EXT"}]
    IN  IF KeyGuard(c1)
        THEN LET r == key_return(c1, leafKeyOK)
             IN  IF r.ret # "ok"
                 THEN [c |-> r.c, ret |-> r.ret, ran |-> 1, swapped |-> r.swapped]
                 ELSE [c |-> [r.c EXCEPT !.flags = r.c.flags \cup {"KEY_INT"}],
                       ret |-> "ok", ran |-> 1, swapped |-> r.swapped]
        ELSE [c |-> c1, ret |-> "ok", ran |-> 0, swapped |-> 0]

\* ------------------------------------------------------------ variables

VARIABLES
    pc,         \* position of the run
    diagnostic, \* the build has HAVE_DIAGNOSTIC: WT_ASSERT aborts
    value,      \* the WT_ITEM being modified (cursor->value)
    before,     \* the item as it was when the last call was made
    edit,       \* the WT_MODIFY of the splice run
    res,        \* what the last call returned
    entries,    \* the WT_MODIFY array of the codec run
    blob,       \* what __wt_modify_pack made of it
    apiRun,     \* the item and return of __wt_modify_apply_api
    chain,      \* the update chain of the record
    page,       \* the record's slot on the original page
    cur,        \* the cursor: flags, key, and the cbt's key buffers
    hist        \* what happened since the last search, and in the last call

vars == <<pc, diagnostic, value, before, edit, res, entries, blob, apiRun,
          chain, page, cur, hist>>

NoRes == [ret |-> "none", oob |-> FALSE, asserted |-> FALSE, path |-> "none"]
NoEdit == MkModify(<< >>, 0, 0)
NoPage == MkPage("ROW_LEAF", "empty", << >>, TRUE)
NoCur == [flags |-> {}]
NoHist == [op |-> "none"]

\* How a call that touched memory outside the chunk ends: the build may
\* fault there, or go on with whatever the stray access left behind.
UBOutcomes(r) == IF r.oob /\ r.ret = "ok" THEN {"ok", "crash"} ELSE {r.ret}

\* ------------------------------------------------------------ splice run

\* The buffers __modify_apply_one is handed: referencing foreign memory,
\* owned and exactly full, owned behind a leading gap (an overflow item),
\* and owned with spare capacity.
SpliceItems ==
    UNION {
        { MkItem(<< >>, 0, n, FALSE, Iota(n)),
          MkItem(Iota(n), 0, n, TRUE, << >>),
          MkItem(<<Uninit>> \o Iota(n), 1, n, TRUE, << >>),
          MkItem(Iota(n) \o <<Uninit, Uninit>>, 0, n, TRUE, << >>) }
        : n \in 0 .. MaxLen }

\* The offsets and sizes of the splice runs: every small word, the words
\* whose sums with a small word wrap, and one in between.
SpliceWords ==
    {w \in Word : \/ w <= MaxLen + MaxData + 1
                  \/ w >= WordMod - MaxData - 2
                  \/ w = WordMod \div 2}

SpliceEdits ==
    [offset : SpliceWords, size : SpliceWords,
     data : SeqsUpTo(DataBytes, MaxData)]

InitSplice ==
    /\ pc = "start"
    /\ diagnostic \in BOOLEAN
    /\ value \in SpliceItems
    /\ before = value
    /\ edit \in SpliceEdits
    /\ res = NoRes
    /\ entries = << >> /\ blob = << >> /\ apiRun = MkRun(EmptyItem)
    /\ chain = << >> /\ page = NoPage /\ cur = NoCur /\ hist = NoHist

\* One call of __modify_apply_one.
ApplyOne ==
    /\ pc = "start"
    /\ \E allocOK \in BOOLEAN :
         \E r \in {modify_apply_one(value, Len(edit.data), edit.offset,
                                    edit.size, edit.data, allocOK, diagnostic)} :
             /\ value' = r.v
             /\ \E out \in UBOutcomes(r) :
                  res' = [ret |-> out, oob |-> r.oob, asserted |-> r.asserted,
                          path |-> r.path]
    /\ pc' = "applied"
    /\ UNCHANGED <<diagnostic, before, edit, entries, blob, apiRun, chain,
                   page, cur, hist>>

NextSplice == ApplyOne

SpecSplice == InitSplice /\ [][NextSplice]_vars

\* ------------------------------------------------------------- codec run

\* Most entries of one packed modify in the codec runs.
MaxEntries == 2

\* The edits of the codec runs: in place, inserting, deleting (no data),
\* overlapping the end, and appending behind a gap.
CodecEdits ==
    {MkModify(d, o, z) : d \in {<< >>, <<8>>, <<9, 8>>}, o \in {0, 1, 4},
                         z \in {0, 2}}

CodecItems ==
    {MkItem(<< >>, 0, 0, FALSE, << >>),
     MkItem(<< >>, 0, 2, FALSE, Iota(2)),
     MkItem(<<Uninit>> \o Iota(3), 1, 3, TRUE, << >>)}

InitCodec ==
    /\ pc = "start"
    /\ diagnostic \in BOOLEAN
    /\ value \in CodecItems
    /\ before = value
    /\ edit = NoEdit
    /\ res = NoRes
    /\ entries \in SeqsUpTo(CodecEdits, MaxEntries)
    /\ blob = << >> /\ apiRun = MkRun(EmptyItem)
    /\ chain = << >> /\ page = NoPage /\ cur = NoCur /\ hist = NoHist

\* __wt_modify_pack(session, &modify, entries, nentries)
Pack ==
    /\ pc = "start"
    /\ blob' = wt_modify_pack(entries)
    /\ pc' = "packed"
    /\ UNCHANGED <<diagnostic, value, before, edit, res, entries, apiRun,
                   chain, page, cur, hist>>

\* __wt_modify_apply(session, value, modify) on the packed modify.
ApplyPacked ==
    /\ pc = "packed"
    /\ \E allocOK \in BOOLEAN :
         \E r \in {wt_modify_apply(MkRun(value), blob, allocOK, diagnostic)} :
             /\ value' = r.v
             /\ res' = [ret |-> r.ret, oob |-> r.oob, asserted |-> r.asserted,
                        path |-> "packed", allocOK |-> allocOK]
    /\ pc' = "applied"
    /\ UNCHANGED <<diagnostic, before, edit, entries, blob, apiRun, chain,
                   page, cur, hist>>

\* __wt_modify_apply_api(session, value, entries, nentries) on a buffer like
\* the one the packed modify was applied to, allocating with the same luck.
ApplyApi ==
    /\ pc = "applied"
    /\ apiRun' = wt_modify_apply_api(MkRun(before), entries, res.allocOK,
                                     diagnostic)
    /\ pc' = "done"
    /\ UNCHANGED <<diagnostic, value, before, edit, res, entries, blob, chain,
                   page, cur, hist>>

NextCodec == Pack \/ ApplyPacked \/ ApplyApi

SpecCodec == InitCodec /\ [][NextCodec]_vars

\* ------------------------------------------------------------- chain run

\* Longest update chain of the chain runs.
MaxChain == 4

\* What the writers of the modify updates packed.
ChainEdits ==
    {<<MkModify(<<8>>, 0, 1)>>,
     <<MkModify(<<9>>, 0, 0), MkModify(<<8>>, 3, 0)>>}

ChainNodes ==
    {MkUpdate("MODIFIED", vis, wt_modify_pack(e), e)
        : vis \in BOOLEAN, e \in ChainEdits}
    \cup {MkUpdate("STANDARD", vis, <<1, 2>>, << >>) : vis \in BOOLEAN}
    \cup {MkUpdate("DELETED", vis, << >>, << >>) : vis \in BOOLEAN}

\* Chains __value_return_upd walks for a modify: the update passed is a
\* modify visible to the reader.
ChainHeads == {u \in ChainNodes : u.type = "MODIFIED" /\ u.visible}

Chains ==
    {<<h>> \o t : h \in ChainHeads, t \in SeqsUpTo(ChainNodes, MaxChain - 1)}

ChainPages ==
    {MkPage("ROW_LEAF", "simple", <<3, 4, 5>>, TRUE),
     MkPage("ROW_LEAF", "empty", << >>, TRUE),
     MkPage("COL_FIX", "bits", <<6>>, TRUE),
     MkPage("COL_VAR", "cell", <<3, 4>>, FALSE)}

\* cursor->value as a call finds it: owned, with the bytes of an earlier
\* return in it.
StaleItem == MkItem(<<7, 7>>, 0, 2, TRUE, << >>)

InitChain ==
    /\ pc = "start"
    /\ diagnostic \in BOOLEAN
    /\ value = StaleItem
    /\ before = value
    /\ edit = NoEdit
    /\ res = NoRes
    /\ entries = << >> /\ blob = << >> /\ apiRun = MkRun(EmptyItem)
    /\ chain \in Chains
    /\ page \in ChainPages
    /\ cur = NoCur /\ hist = NoHist

\* One call of __value_return_upd on the head of the chain.
Resolve ==
    /\ pc = "start"
    /\ \E allocOK \in BOOLEAN :
         \E r \in {value_return_upd(value, chain, 1, page, allocOK,
                                    diagnostic)} :
             /\ value' = r.v
             /\ \E out \in UBOutcomes(r) :
                  res' = [ret |-> out, oob |-> r.oob, asserted |-> r.asserted,
                          path |-> "upd", applied |-> r.applied,
                          spilled |-> r.spilled, allocOK |-> allocOK]
    /\ pc' = "resolved"
    /\ UNCHANGED <<diagnostic, before, edit, entries, blob, apiRun, chain,
                   page, cur, hist>>

NextChain == Resolve

SpecChain == InitChain /\ [][NextChain]_vars

\* ------------------------------------------------------- key return run

\* Most calls of __wt_key_return between two searches.
MaxCalls == 3

Keys == {<<1>>, <<2>>}

\* The key of the page slot a search that found no exact match ends on.
OtherKey(k) == IF k = <<1>> THEN <<2>> ELSE <<1>>

InitCur ==
    [flags |-> {}, key |-> [src |-> "user", bytes |-> << >>],
     recno |-> 0, cbtRecno |-> 0, row_key |-> "A", tmp |-> "B",
     bufs |-> [id \in {"A", "B"} |-> << >>],
     ins |-> [present |-> FALSE, key |-> << >>],
     compare |-> 0, pageType |-> "ROW_LEAF", pageKey |-> << >>]

InitKey ==
    /\ pc = "key"
    /\ diagnostic \in BOOLEAN
    /\ value = EmptyItem
    /\ before = value
    /\ edit = NoEdit
    /\ res = NoRes
    /\ entries = << >> /\ blob = << >> /\ apiRun = MkRun(EmptyItem)
    /\ chain = << >>
    /\ page = NoPage
    /\ cur = InitCur
    /\ hist = [op |-> "none", searched |-> FALSE, keyCalls |-> 0,
               keyRuns |-> 0, swaps |-> 0, keyFailed |-> FALSE,
               built |-> << >>, exact |-> FALSE]

\* A search of the tree for key k, by the cursor layer above: the key is the
\* application's (or the one an earlier return left in the cursor), the
\* cursor is positioned, and the row-store search builds the keys it compares
\* in cbt->tmp; on an exact match on the page that is the key searched for.
Search ==
    /\ pc = "key"
    /\ \E k \in Keys, how \in {"insert", "exact", "near", "column"},
          reuse \in BOOLEAN :
         LET found == IF how = "near" THEN OtherKey(k) ELSE k
             key   == IF reuse /\ cur.key.bytes = k
                      THEN cur.key ELSE [src |-> "user", bytes |-> k]
         IN  /\ cur' = [cur EXCEPT
                          !.flags = {"KEY_EXT"},
                          !.key = key,
                          !.bufs = IF how = "column" THEN cur.bufs
                                   ELSE [cur.bufs EXCEPT ![cur.tmp] = found],
                          !.ins = [present |-> how = "insert", key |-> k],
                          !.compare = IF how = "near" THEN 1 ELSE 0,
                          !.pageType = IF how = "column" THEN "COL_VAR"
                                       ELSE "ROW_LEAF",
                          !.pageKey = found,
                          !.cbtRecno = IF how = "column" THEN k[1] ELSE 0]
             /\ hist' = [op |-> "search", searched |-> TRUE, keyCalls |-> 0,
                         keyRuns |-> 0, swaps |-> 0, keyFailed |-> FALSE,
                         built |-> found, exact |-> how = "exact"]
    /\ UNCHANGED <<pc, diagnostic, value, before, edit, res, entries, blob,
                   apiRun, chain, page>>

\* One call of __wt_key_return.
KeyReturn ==
    /\ pc = "key"
    /\ hist.searched
    /\ hist.keyCalls < MaxCalls
    /\ \E leafKeyOK \in BOOLEAN :
         \E r \in {wt_key_return(cur, leafKeyOK)} :
             /\ cur' = r.c
             /\ hist' = [hist EXCEPT
                           !.op = "key",
                           !.keyCalls = hist.keyCalls + 1,
                           !.keyRuns = hist.keyRuns + r.ran,
                           !.swaps = hist.swaps + r.swapped,
                           !.keyFailed = hist.keyFailed \/ r.ret # "ok"]
    /\ UNCHANGED <<pc, diagnostic, value, before, edit, res, entries, blob,
                   apiRun, chain, page>>

NextKey == Search \/ KeyReturn

SpecKey == InitKey /\ [][NextKey]_vars

\* ----------------------------------------------------- value return run

\* The longest update chain the cursor's record grows to.
MaxCursorChain == 3

CursorNodes ==
    {MkUpdate("STANDARD", TRUE, <<5>>, << >>),
     MkUpdate("DELETED", TRUE, << >>, << >>),
     MkUpdate("MODIFIED", TRUE, wt_modify_pack(<<MkModify(<<8>>, 0, 1)>>),
              <<MkModify(<<8>>, 0, 1)>>)}

CursorPages ==
    {MkPage("ROW_LEAF", "simple", <<3, 4, 5>>, TRUE),
     MkPage("ROW_LEAF", "empty", << >>, TRUE),
     MkPage("COL_FIX", "bits", <<6>>, TRUE)}

NoVal == [ret |-> "none", oob |-> FALSE, asserted |-> FALSE, path |-> "none",
          intAtEntry |-> FALSE, ran |-> "none", dataBefore |-> << >>,
          type |-> "none", applied |-> 0]

InitValue ==
    /\ pc = "value"
    /\ diagnostic \in BOOLEAN
    /\ value = EmptyItem
    /\ before = value
    /\ edit = NoEdit
    /\ res = NoVal
    /\ entries = << >> /\ blob = << >> /\ apiRun = MkRun(EmptyItem)
    /\ chain \in SeqsUpTo(CursorNodes, 1)
    /\ page \in CursorPages
    /\ cur = [InitCur EXCEPT !.flags = {"VALUE_EXT"}]
    /\ hist = NoHist

\* A search by the cursor layer above positions the cursor on the record
\* again; the value the cursor held is no longer the internal one.
SearchRecord ==
    /\ pc = "value"
    /\ "VALUE_INT" \in cur.flags
    /\ cur' = [cur EXCEPT !.flags = cur.flags \ {"VALUE_INT"}]
    /\ res' = NoVal
    /\ UNCHANGED <<pc, diagnostic, value, before, edit, entries, blob, apiRun,
                   chain, page, hist>>

\* One call of __wt_value_return, with the head of the record's update chain
\* (NULL when there is none).
ValueReturn ==
    /\ pc = "value"
    /\ \E allocOK \in BOOLEAN :
         \E upd \in {IF chain = << >> THEN 0 ELSE 1} :
         \E r \in {wt_value_return(cur.flags, value, chain, upd, page,
                                   allocOK, diagnostic)} :
             /\ value' = r.run.v
             /\ cur' = [cur EXCEPT !.flags = r.flags]
             /\ res' = [ret |-> r.run.ret, oob |-> r.run.oob,
                        asserted |-> r.run.asserted, path |-> "value",
                        intAtEntry |-> "VALUE_INT" \in cur.flags,
                        ran |-> r.ran,
                        dataBefore |-> ItemData(value),
                        type |-> IF upd = 0 THEN "none" ELSE chain[upd].type,
                        applied |-> r.run.applied]
    /\ UNCHANGED <<pc, diagnostic, before, edit, entries, blob, apiRun, chain,
                   page, hist>>

\* The cursor's update, remove or modify of the record it is positioned on:
\* a new update at the head of the chain, and no search.
Update ==
    /\ pc = "value"
    /\ Len(chain) < MaxCursorChain
    /\ \E u \in CursorNodes : chain' = <<u>> \o chain
    /\ res' = [res EXCEPT !.path = "update"]
    /\ UNCHANGED <<pc, diagnostic, value, before, edit, entries, blob,
                   apiRun, page, cur, hist>>

NextValue == SearchRecord \/ ValueReturn \/ Update

SpecValue == InitValue /\ [][NextValue]_vars

\* ------------------------------------------------- claims on the splice

\* The buffer and the edit of the call, as the claims name them.
B == ItemData(before)
LenB == before.size
Lead == IF WT_DATA_IN_ITEM(before) THEN before.off ELSE 0
Slice(s, lo, hi) == SubSeq(s, lo + 1, hi)
Applied == pc = "applied"
Succeeded == res.ret = "ok" /\ ~res.oob /\ ~res.asserted

\* C3: an interior edit (offset < len(B), offset + replace_len <= len(B))
\* yields B[0,offset) || data || B[offset+replace_len, len(B)), of size
\* len(B) + len(data) - replace_len, unless the allocation failed.
C3_InteriorSplice ==
    (Applied /\ edit.offset < LenB /\ edit.offset + edit.size <= LenB)
    => \/ res.ret = "ENOMEM"
       \/ /\ Succeeded
          /\ value.size = LenB + Len(edit.data) - edit.size
          /\ ItemData(value) = Slice(B, 0, edit.offset) \o edit.data
                               \o Slice(B, edit.offset + edit.size, LenB)
          /\ Slice(ItemData(value), edit.offset, edit.offset + Len(edit.data))
             = edit.data

\* C3 witness: a growing interior splice that replaces bytes, with a prefix
\* before it and a trailing region behind it, happened.
C3_Witness ==
    /\ Applied /\ Succeeded /\ res.path = "splice"
    /\ edit.offset > 0 /\ edit.offset + edit.size < LenB
    /\ Len(edit.data) > edit.size /\ edit.size > 0

\* C4: an edit at or past the end (offset >= len(B)) yields
\* B || zero(offset - len(B)) || data of size offset + len(data), whatever
\* replace_len is, unless the allocation failed.
C4_TailAppend ==
    (Applied /\ edit.offset >= LenB)
    => \/ res.ret = "ENOMEM"
       \/ /\ Succeeded
          /\ value.size = edit.offset + Len(edit.data)
          /\ ItemData(value) = B \o Fill(edit.offset - LenB, 0) \o edit.data

\* C4 restricted to the edits whose result size and capacity request fit
\* the machine word.
C4_TailAppendInRange ==
    (Applied /\ edit.offset >= LenB
       /\ Lead + edit.offset + Len(edit.data) < WordMod)
    => \/ res.ret = "ENOMEM"
       \/ /\ Succeeded
          /\ value.size = edit.offset + Len(edit.data)
          /\ ItemData(value) = B \o Fill(edit.offset - LenB, 0) \o edit.data

\* C5: with offset < len(B) and replace_len larger than the len(B) - offset
\* bytes that remain, for every replace_len of the machine word, the result
\* is B[0,offset) || data of size offset + len(data).
C5_ClampAnyWord ==
    (Applied /\ edit.offset < LenB /\ edit.size > LenB - edit.offset)
    => \/ res.ret = "ENOMEM"
       \/ /\ Succeeded
          /\ value.size = edit.offset + Len(edit.data)
          /\ ItemData(value) = Slice(B, 0, edit.offset) \o edit.data

\* C5 restricted to offset + replace_len below 2^w.
C5_ClampInRange ==
    (Applied /\ edit.offset < LenB /\ edit.size > LenB - edit.offset
       /\ edit.offset + edit.size < WordMod)
    => \/ res.ret = "ENOMEM"
       \/ /\ Succeeded
          /\ value.size = edit.offset + Len(edit.data)
          /\ ItemData(value) = Slice(B, 0, edit.offset) \o edit.data

\* C10: when offset + len(data) and offset + replace_len do not overflow and
\* the first step left a capacity of at least
\* lead + max(size, offset) + len(data), every access stays in the owned
\* chunk, both WT_ASSERTs hold and the resulting size fits the capacity.
C10_CapacitySuffices ==
    (Applied /\ res.path # "grow"
       /\ edit.offset + Len(edit.data) < WordMod
       /\ edit.offset + edit.size < WordMod
       /\ Len(value.mem) >= Lead + Max(LenB, edit.offset) + Len(edit.data))
    => /\ res.ret = "ok"
       /\ ~res.oob
       /\ ~res.asserted
       /\ WT_DATA_IN_ITEM(value)
       /\ value.off + value.size <= Len(value.mem)

\* C10 witness: a size-changing splice behind a leading gap, with a
\* replacement size that had to be corrected, ran within the capacity.
C10_Witness ==
    /\ Applied /\ res.path = "splice" /\ res.ret = "ok"
    /\ Lead > 0
    /\ edit.offset + edit.size > LenB /\ edit.offset + edit.size < WordMod
    /\ Len(value.mem) = Lead + Max(LenB, edit.offset) + Len(edit.data)

\* -------------------------------------------------- claims on the codec

\* C2: the packed modify decodes to the entries in order (the k-th triple
\* is (data_len, offset, replace_len) of the k-th edit and its slice the
\* edit's data), and applying it gives the buffer contents, size and return
\* that applying the entries one by one with __wt_modify_apply_api gives.
C2_RoundTrip ==
    /\ (pc \in {"packed", "applied", "done"})
       => /\ blob[1] = Len(entries)
          /\ Len(ModifyCalls(blob)) = Len(entries)
          /\ \A k \in 1 .. Len(entries) :
               /\ ModifyCalls(blob)[k].data_size = Len(entries[k].data)
               /\ ModifyCalls(blob)[k].offset = entries[k].offset
               /\ ModifyCalls(blob)[k].size = entries[k].size
               /\ ModifyCalls(blob)[k].data = entries[k].data
    /\ (pc = "done")
       => /\ res.ret = apiRun.ret
          /\ value.size = apiRun.v.size
          /\ ItemData(value) = ItemData(apiRun.v)
          /\ ~res.oob /\ ~apiRun.oob

\* C2 witness: a packed modify of several different entries, one of them
\* without data, was applied both ways and succeeded.
C2_Witness ==
    /\ pc = "done" /\ res.ret = "ok"
    /\ Len(entries) >= 2
    /\ entries[1] # entries[2]
    /\ entries[1].offset # entries[1].size
    /\ \E k \in 1 .. Len(entries) : entries[k].data = << >>
    /\ \E k \in 1 .. Len(entries) : Len(entries[k].data) = 2

\* ---------------------------------------------- claims on the chain walk

Min(a, b) == IF a <= b THEN a ELSE b

\* What one edit means: replace size bytes at offset by data, the bytes
\* replaced being those that exist, and an edit past the end appending
\* behind zero bytes.
EditMeaning(bytes, e) ==
    IF e.offset >= Len(bytes)
    THEN bytes \o Fill(e.offset - Len(bytes), 0) \o e.data
    ELSE Slice(bytes, 0, e.offset) \o e.data
         \o Slice(bytes, e.offset + Min(e.size, Len(bytes) - e.offset),
                  Len(bytes))

RECURSIVE EditsMeaning(_, _)
EditsMeaning(bytes, es) ==
    IF es = << >> THEN bytes
    ELSE EditsMeaning(EditMeaning(bytes, Head(es)), Tail(es))

\* The first visible STANDARD or DELETED update, 0 when there is none.
BaseOf(c) ==
    LET S == {k \in 1 .. Len(c) : c[k].visible /\ WT_UPDATE_DATA_VALUE(c[k])}
    IN  IF S = {} THEN 0 ELSE CHOOSE k \in S : \A j \in S : k <= j

\* The visible modify updates above the base.
AboveBase(c) ==
    {k \in 1 .. Len(c) : /\ c[k].visible /\ c[k].type = "MODIFIED"
                         /\ (BaseOf(c) = 0 \/ k < BaseOf(c))}

PageBytes(pg) == IF pg.kind = "empty" THEN << >> ELSE pg.bytes

BaseBytes(c, pg) ==
    IF BaseOf(c) = 0 THEN PageBytes(pg)
    ELSE IF c[BaseOf(c)].type = "DELETED" THEN << >>
    ELSE c[BaseOf(c)].data

\* The edits of the updates S of c, deepest update first (or last), each
\* update's in stored order.
RECURSIVE EditsOf(_, _, _)
EditsOf(c, S, deepestFirst) ==
    IF S = {} THEN << >>
    ELSE LET k == CHOOSE x \in S :
                    \A y \in S : IF deepestFirst THEN x >= y ELSE x <= y
         IN  c[k].edits \o EditsOf(c, S \ {k}, deepestFirst)

Chronological(c, pg) ==
    EditsMeaning(BaseBytes(c, pg), EditsOf(c, AboveBase(c), TRUE))

\* The base is there to be read: a visible full value or tombstone, or a
\* slot of the page.
BaseReadable == BaseOf(chain) # 0 \/ page.slotOK

\* C1: entered on a modify, __value_return_upd returns the base with the
\* edits of every visible modify above it applied, deepest update first and
\* each update's edits in stored order, for any number of them, also more
\* than WT_MAX_MODIFY_UPDATE; short of a failed allocation it succeeds.
C1_ChronologicalReplay ==
    (pc = "resolved" /\ BaseReadable)
    => /\ res.ret \in {"ok", "ENOMEM"}
       /\ ~res.oob
       /\ res.ret = "ok"
          => /\ ItemData(value) = Chronological(chain, page)
             /\ value.size = Len(Chronological(chain, page))
             /\ res.applied = Cardinality(AboveBase(chain))

\* C1 witness: more modifies than the stack list holds, by two (the list
\* was allocated, then grown), were replayed, in an order that matters.
C1_Witness ==
    /\ pc = "resolved" /\ res.ret = "ok" /\ res.spilled
    /\ res.applied >= WT_MAX_MODIFY_UPDATE + 2
    /\ ItemData(value) = Chronological(chain, page)
    /\ ItemData(value)
       # EditsMeaning(BaseBytes(chain, page),
                      EditsOf(chain, AboveBase(chain), FALSE))

\* The visible updates of c down to the base.
RECURSIVE VisibleToBase(_, _)
VisibleToBase(c, k) ==
    IF k > Len(c) THEN << >>
    ELSE IF ~c[k].visible THEN VisibleToBase(c, k + 1)
    ELSE IF WT_UPDATE_DATA_VALUE(c[k]) THEN <<c[k]>>
    ELSE <<c[k]>> \o VisibleToBase(c, k + 1)

\* C9: the value returned is the one returned for the chain of the visible
\* updates down to the base alone (so two chains that agree on these, and on
\* the page, resolve alike): invisible updates and updates below the base
\* change nothing.
C9_VisiblePrefixDecides ==
    (pc = "resolved")
    => \E r \in {value_return_upd(before, VisibleToBase(chain, 1), 1, page,
                                  res.allocOK, diagnostic)} :
         /\ res.ret \in UBOutcomes(r)
         /\ res.oob = r.oob
         /\ value.size = r.v.size
         /\ ItemData(value) = ItemData(r.v)

\* C9 witness: a chain with an invisible full value or tombstone and an
\* invisible modify between the head and the base was resolved.
C9_Witness ==
    /\ pc = "resolved" /\ res.ret = "ok"
    /\ BaseOf(chain) # 0
    /\ \E k \in 1 .. BaseOf(chain) :
         ~chain[k].visible /\ WT_UPDATE_DATA_VALUE(chain[k])
    /\ \E k \in 1 .. BaseOf(chain) :
         ~chain[k].visible /\ chain[k].type = "MODIFIED"
    /\ res.applied >= 1

\* ------------------------------------------- claims on the value return

\* The last step was a call of __wt_value_return.
ValueCalled == pc = "value" /\ res.path = "value"

\* C6 as stated: passed a tombstone, __wt_value_return completes
\* successfully with a zero-length value: no error, no assertion tripped, no
\* edit applied.
C6_TombstoneReturnsEmpty ==
    (ValueCalled /\ res.type = "DELETED")
    => /\ res.ret = "ok"
       /\ value.size = 0
       /\ res.applied = 0

\* C6 amended: passed a tombstone, __wt_value_return completes successfully
\* with a zero-length internal value and no edit applied where WT_ASSERT is
\* compiled out; in a diagnostic build the WT_ASSERT of bt_ret.c:161 (the
\* update is a modify) fails and the call does not return.
C6_TombstoneByBuild ==
    (ValueCalled /\ res.type = "DELETED")
    => IF diagnostic
       THEN res.ret = "abort" /\ res.asserted
       ELSE /\ res.ret = "ok"
            /\ value.size = 0
            /\ ItemData(value) = << >>
            /\ res.applied = 0
            /\ "VALUE_INT" \in cur.flags /\ "VALUE_EXT" \notin cur.flags

\* C6 witness: a tombstone above an older modify was passed where WT_ASSERT
\* is compiled out, the cursor holding a value from an earlier return.
C6_Witness ==
    /\ ValueCalled /\ res.type = "DELETED" /\ ~diagnostic
    /\ Len(chain) >= 2 /\ chain[2].type = "MODIFIED"
    /\ res.dataBefore # << >>

\* C7 as stated: called with the value already internal, __wt_value_return
\* runs neither __value_return nor __value_return_upd and leaves the value's
\* data and size as they were.
C7_InternalValueSkipped ==
    (ValueCalled /\ res.intAtEntry)
    => /\ res.ran = "none"
       /\ ItemData(value) = res.dataBefore

\* What the record's value is: the page's, or the chain's rolled forward.
RecordValue == Chronological(chain, page)

\* C7 amended: __wt_value_return has no test of WT_CURSTD_VALUE_INT: called
\* with the value already internal it runs __value_return (no update) or
\* __value_return_upd (an update) again, and on success the value is the
\* record's current one, internal and not external.
C7_InternalValueRebuilt ==
    (ValueCalled /\ res.intAtEntry)
    => /\ res.ran = (IF chain = << >> THEN "value_return" ELSE "value_return_upd")
       /\ res.ret = "ok"
          => /\ ItemData(value) = RecordValue
             /\ "VALUE_INT" \in cur.flags /\ "VALUE_EXT" \notin cur.flags

\* C7 witness: a second call without a search between, after an update of
\* the record, changed the value the cursor held.
C7_Witness ==
    /\ ValueCalled /\ res.intAtEntry /\ res.ret = "ok"
    /\ ItemData(value) # res.dataBefore
    /\ res.ran = "value_return_upd"

\* --------------------------------------------- claims on the key return

\* C8: after one or more successful calls of __wt_key_return that follow one
\* search, the key is internal and not external, __key_return ran at most
\* once, and on the exact-match row-store path row_key and tmp were swapped
\* exactly once: the key references the bytes the search built, in the
\* buffer that is now row_key and not tmp.
C8_KeyReturnedOnce ==
    (pc = "key" /\ hist.searched /\ hist.keyCalls >= 1 /\ ~hist.keyFailed)
    => /\ "KEY_INT" \in cur.flags
       /\ "KEY_EXT" \notin cur.flags
       /\ hist.keyRuns = 1
       /\ hist.exact
          => /\ hist.swaps = 1
             /\ cur.key.src = cur.row_key
             /\ cur.key.src # cur.tmp
             /\ cur.key.bytes = hist.built
             /\ cur.bufs[cur.row_key] = hist.built
       /\ ~hist.exact => hist.swaps = 0

\* C8 witness: several calls after an exact match of a search that used the
\* key an earlier return had left in the cursor.
C8_Witness ==
    /\ pc = "key" /\ hist.exact /\ hist.keyCalls >= 2 /\ ~hist.keyFailed
    /\ cur.row_key = "A" /\ cur.bufs["A"] # cur.bufs["B"]

====
